---- MODULE Spec2Model ----
(***************************************************************************)
(* The tracked-cursor pipeline of sketch.js: the detector callback that    *)
(* overwrites `hands`, the frame pass draw() with drawTrackedCursor(), and *)
(* the touch / mouse handlers.                                             *)
(*                                                                         *)
(* JavaScript values are tagged records: Undefined, Null, arrays           *)
(* [tag |-> "array", items |-> <<...>>] and points [tag |-> "point", ...]. *)
(* Depths (z) are integers in thousandths of a model-space unit, so the    *)
(* calibration range -0.1 .. 0.1 of the source is -100 .. 100.  Results of *)
(* p5's map() are exact rationals [num, den].                              *)
(***************************************************************************)
EXTENDS Integers, Sequences, FiniteSets, TLC

\* ---------------------------------------------------------------- bounds
\* raw keypoint coordinates delivered by the detector are 0 .. MaxPos
MaxPos == 1
\* frame passes explored by Spec and SpecDepth
MaxFrames == 3
\* frame passes explored by SpecSelect
MaxSelectFrames == 1
\* frame passes explored by SpecTrail (more than the trail capacity)
MaxTrailFrames == 22

\* ------------------------------------------------- configuration (source)
TRACKED_KEYPOINT_INDEX == 8
maxTrailLength == 20
maxHands == 2
NumKeypoints == 21

VARIABLES
  TRACKED_HAND,       \* selection policy: "Left", "Right" or "First"
  SHOW_VIDEO,         \* display flag toggled by touch / mouse
  hands,              \* latest detection result (sequence of hands)
  cursor,             \* the global cursor: Undefined, Null or a point
  previousPositions,  \* the trail, oldest first
  frameCount,         \* number of frame passes started so far
  frame,              \* what the latest frame pass did and rendered
  error,              \* the handler that ran last ended in an uncaught error
  fresh,              \* the detector delivered results no frame has read yet
  appended            \* history: every point ever pushed onto the trail

vars == <<TRACKED_HAND, SHOW_VIDEO, hands, cursor, previousPositions,
          frameCount, frame, error, fresh, appended>>

\* ------------------------------------------------------ JavaScript values
Undefined == [tag |-> "undefined"]
Null == [tag |-> "null"]
Thrown == [tag |-> "TypeError"]
Arr(s) == [tag |-> "array", items |-> s]
Point(px, py) == [tag |-> "point", x |-> px, y |-> py]
\* NaN coordinate, encoded outside the screen range
NaN == 0 - 1

\* !v is false for every object and array, the empty array included
Truthy(v) == v.tag \notin {"undefined", "null"}

\* base[i] with a 0-based index: a TypeError on undefined / null, undefined
\* when the array has no entry i
GetIndex(base, i) ==
  IF ~Truthy(base) THEN Thrown
  ELSE IF i + 1 \in 1..Len(base.items) THEN base.items[i + 1]
  ELSE Undefined

\* ------------------------------------------------------- detector output
\* a raw 2D keypoint set whose tracked entry is at (p, MaxPos - p)
Keypoints2D(p) ==
  Arr([i \in 1..NumKeypoints |->
        IF i = TRACKED_KEYPOINT_INDEX + 1 THEN Point(p, MaxPos - p)
        ELSE Point(0, 0)])

\* a raw 3D keypoint set whose tracked entry has depth z
Keypoints3D(z) ==
  Arr([i \in 1..NumKeypoints |->
        IF i = TRACKED_KEYPOINT_INDEX + 1
        THEN [tag |-> "point", x |-> 0, y |-> 0, z |-> z]
        ELSE [tag |-> "point", x |-> 0, y |-> 0, z |-> 0]])

HandsOf(labels, kps, kps3D) ==
  { [handedness |-> h, keypoints |-> k, keypoints3D |-> k3] :
      h \in labels, k \in kps, k3 \in kps3D }

\* every detection list of at most n hands drawn from shapes
DetectionLists(shapes, n) == UNION { [1..k -> shapes] : k \in 0..n }

\* Spec: no hand, or one hand of either label whose 2D and 3D keypoints are
\* each absent, empty or complete
Detections ==
  DetectionLists(
    HandsOf({"Left", "Right"},
            {Undefined, Arr(<<>>)} \cup {Keypoints2D(p) : p \in 0..MaxPos},
            {Undefined, Arr(<<>>), Keypoints3D(-100)}),
    1)

\* SpecSelect: up to maxHands complete hands, labelled or not
SelectDetections ==
  DetectionLists(
    HandsOf({"Left", "Right", "undefined"},
            {Keypoints2D(p) : p \in 0..MaxPos}, {Keypoints3D(-100)}),
    maxHands)

\* SpecTrail: one complete left hand
TrailDetections ==
  DetectionLists(
    HandsOf({"Left"}, {Keypoints2D(p) : p \in 0..MaxPos}, {Keypoints3D(-100)}),
    1) \ {<<>>}

\* SpecDepth: one complete left hand at any of these depths
ZVals == {-1000, -200, -100, -50, 0, 50, 100, 200, 1000}

DepthDetections ==
  DetectionLists(
    HandsOf({"Left"}, {Keypoints2D(0)}, {Keypoints3D(z) : z \in ZVals}), 1)

\* raw x of the tracked keypoint of the first hand of a TrailDetections list
RawX(hs) == GetIndex(hs[1].keypoints, TRACKED_KEYPOINT_INDEX).x

\* ---------------------------------------------------------- p5 functions
\* map(n, start1, stop1, start2, stop2) =
\*   (n - start1) / (stop1 - start1) * (stop2 - start2) + start2
map(n, start1, stop1, start2, stop2) ==
  [num |-> (n - start1) * (stop2 - start2) + start2 * (stop1 - start1),
   den |-> stop1 - start1]

\* constrain(n, low, high) = max(min(n, high), low), on a rational with den > 0
constrain(r, low, high) ==
  IF r.num > high * r.den THEN [num |-> high * r.den, den |-> r.den]
  ELSE IF r.num < low * r.den THEN [num |-> low * r.den, den |-> r.den]
  ELSE r

\* cam.mapKeypoint (external): the raw keypoint scaled and offset to the
\* display; what it does with an undefined keypoint is not fixed by the
\* sketch: it may throw, hand back the undefined value, or compute NaN
mapKeypoint(keypoint) ==
  IF keypoint.tag = "point"
  THEN {Point(2 * keypoint.x + 1, 2 * keypoint.y + 3)}
  ELSE {Thrown, Undefined, Point(NaN, NaN)}

\* ----------------------------------------------------------- hand selector
RECURSIVE FindHand(_, _, _)
\* for (let hand of hands) { if (hand.handedness === TRACKED_HAND) ... break }
\* from position i on; 0 stands for trackedHand = null
FindHand(hs, policy, i) ==
  IF i > Len(hs) THEN 0
  ELSE IF hs[i].handedness = policy THEN i
  ELSE FindHand(hs, policy, i + 1)

RECURSIVE FindLastHand(_, _, _)
FindLastHand(hs, policy, i) ==
  IF i > Len(hs) THEN 0
  ELSE IF FindLastHand(hs, policy, i + 1) # 0 THEN FindLastHand(hs, policy, i + 1)
  ELSE IF hs[i].handedness = policy THEN i
  ELSE 0

\* mutant: the scan keeps going and ends on the last matching hand
SelectLastMatch(hs, policy) ==
  IF policy = "First" THEN (IF Len(hs) >= 1 THEN 1 ELSE 0)
  ELSE FindLastHand(hs, policy, 1)

\* mutant: falls back to the first hand when no label matches
SelectWithFallback(hs, policy) ==
  IF policy = "First" THEN (IF Len(hs) >= 1 THEN 1 ELSE 0)
  ELSE IF FindHand(hs, policy, 1) # 0 THEN FindHand(hs, policy, 1)
  ELSE IF Len(hs) >= 1 THEN 1 ELSE 0

\* index into hs of the tracked hand, 0 when trackedHand is null / undefined
selectTrackedHand(hs, policy) ==
  IF policy = "First" THEN (IF Len(hs) >= 1 THEN 1 ELSE 0)
  ELSE FindHand(hs, policy, 1)

\* mutant: the guard forgets keypoints3D
PreconditionsWithout3D(hs, t) ==
  /\ t # 0
  /\ Truthy(hs[t].keypoints)

\* the negation of the early-return test
\* !trackedHand || !trackedHand.keypoints || !trackedHand.keypoints3D
cursorPreconditions(hs, t) ==
  /\ t # 0
  /\ Truthy(hs[t].keypoints)
  /\ Truthy(hs[t].keypoints3D)

\* ----------------------------------------------------------- cursor deriver
\* mutant: the output range is not inverted
DepthSizeNotInverted(z) == constrain(map(z, -100, 100, 20, 50), 15, 60)

\* mutant: the clamp is left out
DepthSizeUnclamped(z) == map(z, -100, 100, 50, 20)

\* depthSize = constrain(map(cursor.z, -0.1, 0.1, 50, 20), 15, 60); the
\* detector's 3D keypoints always carry z, so the branch cursor.z !== undefined
\* is the one taken
depthSizeOf(z) == constrain(map(z, -100, 100, 50, 20), 15, 60)

\* -------------------------------------------------------------- trail buffer
\* mutant: the capacity test is missing
PushWithoutEviction(trail, c) == Append(trail, [x |-> c.x, y |-> c.y])

\* mutant: the newest old entry is evicted instead of the oldest
PushEvictNewest(trail, c) ==
  LET pushed == Append(trail, [x |-> c.x, y |-> c.y])
  IN IF Len(pushed) > maxTrailLength
     THEN SubSeq(pushed, 1, Len(pushed) - 2) \o <<pushed[Len(pushed)]>>
     ELSE pushed

\* mutant: a position equal to the newest entry is not pushed again
PushIfMoved(trail, c) ==
  LET pt == [x |-> c.x, y |-> c.y]
      pushed == IF trail # <<>> /\ trail[Len(trail)] = pt
                THEN trail ELSE Append(trail, pt)
  IN IF Len(pushed) > maxTrailLength THEN Tail(pushed) ELSE pushed

\* previousPositions.push({x: cursor.x, y: cursor.y});
\* if (previousPositions.length > maxTrailLength) previousPositions.shift();
updateTrail(trail, c) ==
  LET pushed == Append(trail, [x |-> c.x, y |-> c.y])
  IN IF Len(pushed) > maxTrailLength THEN Tail(pushed) ELSE pushed

\* mutant: the interpolation runs over the segments, not over the points
SegmentsOverSegmentIndex(trail) ==
  IF Len(trail) < 2 THEN <<>>
  ELSE [k \in 1..(Len(trail) - 1) |->
         [i |-> k - 1,
          alpha |-> map(k - 1, 0, Len(trail) - 2, 50, 255),
          weight |-> map(k - 1, 0, Len(trail) - 2, 1, 8)]]

\* for (let i = 0; i < previousPositions.length - 1; i++): the segment from
\* point i to point i + 1 with its alpha and stroke weight
trailSegments(trail) ==
  IF Len(trail) < 2 THEN <<>>
  ELSE [k \in 1..(Len(trail) - 1) |->
         [i |-> k - 1,
          alpha |-> map(k - 1, 0, Len(trail) - 1, 50, 255),
          weight |-> map(k - 1, 0, Len(trail) - 1, 1, 8)]]

\* ------------------------------------------------------------------ frames
FrameOut(outcome, tracked, size, segments) ==
  [outcome |-> outcome, tracked |-> tracked, reused |-> ~fresh,
   depthSize |-> size, segments |-> segments]

\* the frame pass ends in an uncaught TypeError; c is the value of cursor
Throw(c, t) ==
  /\ cursor' = c
  /\ error' = TRUE
  /\ frame' = FrameOut("threw", t, Undefined, <<>>)
  /\ UNCHANGED <<previousPositions, appended>>

drawTrackedCursor ==
  LET t == selectTrackedHand(hands, TRACKED_HAND)
  IN IF ~cursorPreconditions(hands, t)
     THEN /\ frame' = FrameOut("returned", t, Undefined, <<>>)
          /\ error' = FALSE
          /\ UNCHANGED <<cursor, previousPositions, appended>>
     ELSE LET keypoint == GetIndex(hands[t].keypoints, TRACKED_KEYPOINT_INDEX)
              keypoint3D == GetIndex(hands[t].keypoints3D, TRACKED_KEYPOINT_INDEX)
          IN IF keypoint = Thrown THEN Throw(cursor, t)
             ELSE \E mapped \in mapKeypoint(keypoint) :
                    IF mapped = Thrown THEN Throw(cursor, t)
                    ELSE IF keypoint3D.tag # "point" \/ mapped.tag # "point"
                    THEN Throw(mapped, t)
                    ELSE LET c == [tag |-> "point", x |-> mapped.x,
                                   y |-> mapped.y, z |-> keypoint3D.z]
                             trail == updateTrail(previousPositions, c)
                         IN /\ cursor' = c
                            /\ previousPositions' = trail
                            /\ appended' = Append(appended, [x |-> c.x, y |-> c.y])
                            /\ error' = FALSE
                            /\ frame' = FrameOut("drew", t, depthSizeOf(c.z),
                                                 trailSegments(trail))

\* draw(): drawAllHands() and drawUI() render only and change no state.
\* Whether the frame clock calls draw() again after a pass that threw is up
\* to p5; the model lets it.
draw ==
  /\ frameCount' = frameCount + 1
  /\ fresh' = FALSE
  /\ UNCHANGED <<TRACKED_HAND, SHOW_VIDEO, hands>>
  /\ IF Len(hands) > 0
     THEN drawTrackedCursor
     ELSE /\ frame' = FrameOut("idle", 0, Undefined, <<>>)
          /\ error' = FALSE
          /\ UNCHANGED <<cursor, previousPositions, appended>>

\* the detectStart callback: hands = results
gotHands(results) ==
  /\ hands' = results
  /\ fresh' = TRUE
  /\ error' = FALSE
  /\ UNCHANGED <<TRACKED_HAND, SHOW_VIDEO, cursor, previousPositions,
                 frameCount, frame, appended>>

toggleVideo ==
  /\ SHOW_VIDEO' = ~SHOW_VIDEO
  /\ error' = FALSE
  /\ UNCHANGED <<TRACKED_HAND, hands, cursor, previousPositions, frameCount,
                 frame, fresh, appended>>

\* ------------------------------------------------------------ specifications
InitWith(policies) ==
  /\ TRACKED_HAND \in policies
  /\ SHOW_VIDEO = TRUE
  /\ hands = <<>>
  /\ cursor = Undefined
  /\ previousPositions = <<>>
  /\ frameCount = 0
  /\ frame = [outcome |-> "none", tracked |-> 0, reused |-> FALSE,
              depthSize |-> Undefined, segments |-> <<>>]
  /\ error = FALSE
  /\ fresh = FALSE
  /\ appended = <<>>

\* the sketch as configured: TRACKED_HAND = 'Left'
Init == InitWith({"Left"})

Detect == \E results \in Detections : gotHands(results)

Draw == frameCount < MaxFrames /\ draw

TouchStarted == toggleVideo

MousePressed == toggleVideo

Next == Detect \/ Draw \/ TouchStarted \/ MousePressed

Spec == Init /\ [][Next]_vars

\* long runs: the tracked hand sweeps across the picture, never backwards
InitTrail == InitWith({"Left"})

DetectTrail ==
  \E results \in TrailDetections :
    /\ hands # <<>> => RawX(results) >= RawX(hands)
    /\ gotHands(results)

DrawTrail == frameCount < MaxTrailFrames /\ draw

TouchStartedTrail == toggleVideo

MousePressedTrail == toggleVideo

NextTrail == DetectTrail \/ DrawTrail \/ TouchStartedTrail \/ MousePressedTrail

SpecTrail == InitTrail /\ [][NextTrail]_vars

\* hand selection: every policy over every list of up to maxHands hands
InitSelect == InitWith({"Left", "Right", "First"})

DetectSelect == \E results \in SelectDetections : gotHands(results)

DrawSelect == frameCount < MaxSelectFrames /\ draw

NextSelect == DetectSelect \/ DrawSelect

SpecSelect == InitSelect /\ [][NextSelect]_vars

\* depth to size: one hand at every depth of ZVals
InitDepth == InitWith({"Left"})

DetectDepth == \E results \in DepthDetections : gotHands(results)

DrawDepth == frameCount < MaxFrames /\ draw

NextDepth == DetectDepth \/ DrawDepth

SpecDepth == InitDepth /\ [][NextDepth]_vars

\* ------------------------------------------------------------------ claims
\* the hand the frame pass tracks, as the model's selector computes it
Sel == selectTrackedHand(hands, TRACKED_HAND)

CursorXY == [x |-> cursor.x, y |-> cursor.y]

Min(a, b) == IF a < b THEN a ELSE b

\* the last n elements of s (all of s when it is shorter)
LastN(s, n) == SubSeq(s, Len(s) - Min(Len(s), n) + 1, Len(s))

\* pt holds real screen coordinates
OnScreen(pt) == pt.x # NaN /\ pt.y # NaN

\* rational r equals the integer k / lies below the integer k
RatIs(r, k) == r.den > 0 /\ r.num = k * r.den

RatBelow(r, k) == r.den > 0 /\ r.num < k * r.den

\* C1: starting from an empty trail, whatever frame passes, detector
\* callbacks and touch / mouse events happen, the trail never holds more
\* than maxTrailLength points.
C1_TrailWithinCapacity == Len(previousPositions) <= maxTrailLength

C1_Witness ==
  /\ Len(previousPositions) = maxTrailLength
  /\ Len(appended) > maxTrailLength

\* C2: the trail is always the last maxTrailLength points pushed, oldest
\* first; after more than maxTrailLength cursor-producing frames its length
\* is exactly maxTrailLength, so evictions removed only the oldest entries.
C2_TrailIsLastAppended ==
  /\ previousPositions = LastN(appended, maxTrailLength)
  /\ Len(appended) > maxTrailLength => Len(previousPositions) = maxTrailLength

C2_Witness ==
  /\ Len(appended) > maxTrailLength
  /\ appended[1] # appended[Len(appended)]
  /\ previousPositions[1] # previousPositions[maxTrailLength]

\* C3: a frame pass whose tracked hand has keypoints but no keypoints3D
\* returns early: no cursor is derived, the cursor and the trail stay as
\* they were.
C3_No3DNoAppend ==
  [][(/\ frameCount' # frameCount
      /\ Sel # 0
      /\ Truthy(hands[Sel].keypoints)
      /\ ~Truthy(hands[Sel].keypoints3D))
     => (/\ frame'.outcome = "returned"
         /\ ~error'
         /\ cursor' = cursor
         /\ previousPositions' = previousPositions
         /\ appended' = appended)]_vars

C3_Witness ==
  /\ frame.outcome = "returned"
  /\ ~fresh
  /\ Sel # 0
  /\ Truthy(hands[Sel].keypoints)
  /\ ~Truthy(hands[Sel].keypoints3D)
  /\ previousPositions # <<>>
  /\ OnScreen(previousPositions[1])

\* C4, for a tracked hand whose keypoints hold the tracked entry and whose
\* keypoints3D is present but has no entry at the tracked index: the frame
\* pass raises no error and behaves as if no hand were selected, cursor and
\* trail unchanged.
C4_EmptyKeypointsSilent ==
  [][(/\ frameCount' # frameCount
      /\ Sel # 0
      /\ Truthy(hands[Sel].keypoints)
      /\ Truthy(hands[Sel].keypoints3D)
      /\ GetIndex(hands[Sel].keypoints, TRACKED_KEYPOINT_INDEX).tag = "point"
      /\ GetIndex(hands[Sel].keypoints3D, TRACKED_KEYPOINT_INDEX) = Undefined)
     => (/\ ~error'
         /\ frame'.outcome = "returned"
         /\ cursor' = cursor
         /\ previousPositions' = previousPositions)]_vars

\* the hand the claim says is tracked: the first hand under 'First', else
\* the earliest hand whose handedness is the policy label; 0 for none
Matches(i) == hands[i].handedness = TRACKED_HAND

ExpectedHand ==
  IF TRACKED_HAND = "First" THEN (IF hands # <<>> THEN 1 ELSE 0)
  ELSE IF \E i \in DOMAIN hands : Matches(i)
  THEN CHOOSE i \in DOMAIN hands : Matches(i) /\ \A j \in 1..(i - 1) : ~Matches(j)
  ELSE 0

\* C5: every frame pass tracks the first hand under 'First', the earliest
\* hand carrying the policy label under 'Left' / 'Right', and no hand when
\* there is none; the cursor it produces is that hand's mapped keypoint;
\* selecting changes neither the detection list nor the policy.
C5_Selection ==
  [][frameCount' # frameCount
     => (/\ frame'.tracked = ExpectedHand
         /\ hands' = hands
         /\ TRACKED_HAND' = TRACKED_HAND
         /\ frame'.outcome = "drew"
              => /\ ExpectedHand # 0
                 /\ cursor'.x = 2 * GetIndex(hands[ExpectedHand].keypoints,
                                             TRACKED_KEYPOINT_INDEX).x + 1)]_vars

C5_Witness ==
  /\ ~fresh
  /\ TRACKED_HAND = "Left"
  /\ Len(hands) = 2
  /\ hands[1].handedness = "Right"
  /\ hands[2].handedness = "Left"
  /\ frame.tracked = 2
  /\ frame.outcome = "drew"

\* size, in thousandths, the claim gives for depth z (in thousandths):
\* 35 - 150 z clamped to [15, 60]
ExpectedSizeMilli(z) ==
  LET lin == 35000 - 150 * z
  IN IF lin > 60000 THEN 60000 ELSE IF lin < 15000 THEN 15000 ELSE lin

\* C6: whenever a cursor is produced its size is 35 - 150 z clamped to
\* [15, 60]: 50 at z = -0.1, 20 at z = 0.1, 60 at z = -1.0, 15 at z = 1.0;
\* the size lies in [15, 60] and never increases as z increases.
C6_DepthSize ==
  /\ frame.outcome = "drew"
       => /\ frame.depthSize.den > 0
          /\ frame.depthSize.num * 1000
               = ExpectedSizeMilli(cursor.z) * frame.depthSize.den
          /\ frame.depthSize.num >= 15 * frame.depthSize.den
          /\ frame.depthSize.num <= 60 * frame.depthSize.den
          /\ cursor.z = -100 => RatIs(frame.depthSize, 50)
          /\ cursor.z = 100 => RatIs(frame.depthSize, 20)
          /\ cursor.z = -1000 => RatIs(frame.depthSize, 60)
          /\ cursor.z = 1000 => RatIs(frame.depthSize, 15)
  /\ \A z1, z2 \in ZVals :
       z1 <= z2 => depthSizeOf(z2).num * depthSizeOf(z1).den
                     <= depthSizeOf(z1).num * depthSizeOf(z2).den

C6_Witness ==
  /\ frame.outcome = "drew"
  /\ cursor.z = -1000
  /\ RatIs(frame.depthSize, 60)

\* C7 as claimed: in a frame that draws a trail of length L >= 2, segments
\* 0 .. L-2 are drawn, segment 0 has opacity 50 and width 1 and segment L-2
\* has opacity 255 and width 8.
C7_EndpointsExact ==
  (frame.outcome = "drew" /\ Len(previousPositions) >= 2)
    => /\ Len(frame.segments) = Len(previousPositions) - 1
       /\ RatIs(frame.segments[1].alpha, 50)
       /\ RatIs(frame.segments[1].weight, 1)
       /\ RatIs(frame.segments[Len(frame.segments)].alpha, 255)
       /\ RatIs(frame.segments[Len(frame.segments)].weight, 8)

\* C7 amended: a frame that produces a cursor draws, for the trail of
\* length L it leaves, exactly the segments 0 .. L-2 (none when L = 1);
\* segment i has opacity 50 + 205 i / (L-1) and width 1 + 7 i / (L-1), so
\* segment 0 has opacity 50 and width 1 and the last segment stays below
\* opacity 255 and width 8; a frame that produces no cursor draws no segment.
C7_SegmentStyle ==
  IF frame.outcome = "drew"
  THEN LET L == Len(previousPositions)
           segs == frame.segments
       IN /\ L >= 1
          /\ Len(segs) = L - 1
          /\ \A k \in 1..(L - 1) :
               /\ segs[k].i = k - 1
               /\ segs[k].alpha.den > 0
               /\ segs[k].alpha.num * (L - 1)
                    = (50 * (L - 1) + 205 * (k - 1)) * segs[k].alpha.den
               /\ segs[k].weight.den > 0
               /\ segs[k].weight.num * (L - 1)
                    = ((L - 1) + 7 * (k - 1)) * segs[k].weight.den
          /\ L >= 2 => /\ RatIs(segs[1].alpha, 50)
                       /\ RatIs(segs[1].weight, 1)
                       /\ RatBelow(segs[L - 1].alpha, 255)
                       /\ RatBelow(segs[L - 1].weight, 8)
  ELSE frame.segments = <<>>

C7_Witness ==
  /\ frame.outcome = "drew"
  /\ Len(previousPositions) = maxTrailLength
  /\ Len(frame.segments) = maxTrailLength - 1
  /\ Len(appended) > maxTrailLength

\* no hand of the detection list is eligible under the policy
NoMatch ==
  \/ hands = <<>>
  \/ TRACKED_HAND # "First" /\ \A i \in DOMAIN hands : ~Matches(i)

\* C8 as claimed, for a frame pass that follows one that produced a cursor:
\* with no eligible hand it leaves the cursor state at none (it does not
\* carry over the previous frame's cursor) and the trail as it was.
C8_CursorResetWhenNoHand ==
  [][(/\ frameCount' # frameCount
      /\ NoMatch
      /\ frame.outcome = "drew"
      /\ OnScreen(cursor))
     => (/\ cursor' = Undefined
         /\ previousPositions' = previousPositions)]_vars

\* C8 amended: a frame pass with no eligible hand produces and draws no
\* cursor and leaves the trail exactly as it was (nothing appended, nothing
\* evicted), while the cursor state keeps the value the previous frames left
\* in it.
C8_NoHandNoChange ==
  [][(frameCount' # frameCount /\ NoMatch)
     => (/\ frame'.outcome \in {"idle", "returned"}
         /\ frame'.tracked = 0
         /\ ~error'
         /\ cursor' = cursor
         /\ previousPositions' = previousPositions
         /\ appended' = appended)]_vars

C8_Witness ==
  /\ ~fresh
  /\ NoMatch
  /\ frame.outcome \in {"idle", "returned"}
  /\ cursor.tag = "point"
  /\ OnScreen(cursor)
  /\ previousPositions = <<CursorXY>>

\* the frame pass about to run reads a detection an earlier frame pass has
\* already read, and that detection holds a hand the pipeline can track
StaleTrackable ==
  /\ ~fresh
  /\ Sel # 0
  /\ GetIndex(hands[Sel].keypoints, TRACKED_KEYPOINT_INDEX).tag = "point"
  /\ GetIndex(hands[Sel].keypoints3D, TRACKED_KEYPOINT_INDEX).tag = "point"

\* C9 as claimed: while the detector is stalled, a frame pass over the stale
\* detection leaves the cursor where it was and appends nothing to the trail.
C9_StaleFrameNoAppend ==
  [][(frameCount' # frameCount /\ StaleTrackable)
     => (/\ cursor' = cursor
         /\ previousPositions' = previousPositions)]_vars

\* C9 amended: while the detector is stalled, every frame pass over the
\* stale detection leaves the cursor where it was and appends one more copy
\* of that position to the trail, so the trail grows by one per frame up to
\* maxTrailLength and from then on evicts its oldest entry each frame.
C9_StaleFrameAppendsAgain ==
  [][(frameCount' # frameCount /\ StaleTrackable)
     => (/\ cursor' = cursor
         /\ frame'.outcome = "drew"
         /\ frame'.reused
         /\ appended' = Append(appended, CursorXY)
         /\ previousPositions'
              = LastN(Append(previousPositions, CursorXY), maxTrailLength)
         /\ Len(previousPositions')
              = Min(Len(previousPositions) + 1, maxTrailLength))]_vars

C9_Witness ==
  /\ frame.reused
  /\ frame.outcome = "drew"
  /\ Len(previousPositions) >= 2
  /\ previousPositions[Len(previousPositions)]
       = previousPositions[Len(previousPositions) - 1]
  /\ previousPositions[Len(previousPositions)] = CursorXY

\* C10: after every handler that ends without error (frame pass, detector
\* callback, touch / mouse event) a non-empty trail ends with the (x, y) of
\* the cursor state; stated for a trail and a cursor that hold real screen
\* coordinates.
C10_TrailHeadIsCursor ==
  (/\ ~error
   /\ previousPositions # <<>>
   /\ OnScreen(previousPositions[Len(previousPositions)])
   /\ cursor.tag = "point"
   /\ OnScreen(cursor))
    => previousPositions[Len(previousPositions)] = CursorXY

====
